---- MODULE Spec2Model ----
(***************************************************************************)
(* The workflow orchestration core of cinegenie                             *)
(* (src/core/orchestrator.py): the WorkflowState record, the nine graph     *)
(* nodes, the eight router functions, the conditional-edge tables, and      *)
(* process_movie, which drives one run from the entry node to END and       *)
(* compiles and saves the result; the two HTTP endpoints of src/main.py     *)
(* that start a run and report on one; and the trend cache of               *)
(* TrendMiningAgent.analyze_movie_trends (src/agents/trend_miner/agent.py). *)
(*                                                                          *)
(* Python values are represented as follows.                                *)
(*   Optional[X]   None is <<>>, a present value x is <<x>>                 *)
(*   List[X]       a sequence                                               *)
(*   Dict          a record                                                 *)
(*   float         an integer number of thousandths (viral_potential) or    *)
(*                 of hundredths (trending_score)                           *)
(* One step of the model is one superstep of the graph engine: a node       *)
(* function followed by the router on that node's conditional edges.        *)
(***************************************************************************)
EXTENDS Integers, Sequences, FiniteSets, TLC

VARIABLES
    request,    \* the arguments process_movie was called with
    state,      \* the WorkflowState instance of the run
    node,       \* the node the engine executes next, or END
    pc,         \* position of process_movie: "running" or "returned"
    results,    \* the value process_movie returned (None while running)
    files,      \* the files of output_dir written by this run
    executed,   \* history: the nodes executed so far, in order
    calls,      \* history: the collaborator calls made so far, with arguments
    raised,     \* history: the exceptions raised so far, with where and text
    response,   \* the reply of POST /process-movie (None until it is sent)
    polled,     \* the latest reply of GET /workflow-status/{id} (None if none)
    cache,      \* TrendMiningAgent.cache: cache_key -> [data, timestamp]
    now,        \* datetime.now(), in half hours
    lookup,     \* per caller of analyze_movie_trends: where the call stands
    report,     \* the value auto_trend_analysis returned (None until then)
    miner,      \* TrendMiningAgent.get_trending_movies: where the call stands
    threads     \* the concurrent runs of one orchestrator, by thread_id

vars == <<request, state, node, pc, results, files, executed, calls, raised,
          response, polled, cache, now, lookup, report, miner, threads>>

orchestratorVars == <<request, state, node, pc, results, files, executed, calls, raised>>

apiVars == <<response, polled, report>>

trendVars == <<cache, now, lookup>>

minerVars == <<miner>>

threadVars == <<threads>>

-----------------------------------------------------------------------------
(* Python's None and Optional values.                                      *)

None == <<>>

Some(x) == <<x>>

\* Python truthiness of an Optional[str]: None and "" are both falsy.
Truthy(o) == o # None /\ o[1] # ""

Min(a, b) == IF a <= b THEN a ELSE b

-----------------------------------------------------------------------------
(* Bounds of the model and the inputs of a run.                            *)

\* Longest list of candidates the trend miner returns in the model.
MaxMovies == 2

\* Supersteps after which the engine stops scheduling nodes.
MaxSteps == 12

\* Titles a caller may pass to process_movie (None: no title supplied).
MovieTitles == {None, Some("Inception"), Some("Tenet")}

\* Values uuid.uuid4() may produce for workflow_id.
WorkflowIds == {"wf-1", "wf-2"}

\* str(e) of an exception raised by a collaborator.
FailureTexts == {"", "timeout"}

\* str(e) of the OSError raised when a file of output_dir cannot be written.
WriteErrorText == "cannot write"

\* str(e) of the TypeError raised by None / 10.0.
TypeErrorText == "unsupported operand type(s)"

\* Candidates the trend miner may return.  trending_score is in hundredths;
\* <<>> is a score that is not a number.  viral_potential is the key the
\* orchestrator adds (<<>>: key not set yet).
Candidate(t, ts, sm) ==
    [title |-> t, trending_score |-> ts, social_mentions |-> sm,
     viral_potential |-> None]

CandidatePool ==
    { Candidate("Dune", Some(20), 0),
      Candidate("Heat", Some(20), 0),
      Candidate("Tenet", Some(50), 10000),
      Candidate("Alien", None, 0) }

RECURSIVE SeqsUpTo(_, _)
SeqsUpTo(S, n) ==
    IF n = 0 THEN {<<>>}
    ELSE LET shorter == SeqsUpTo(S, n - 1)
         IN shorter \cup {Append(s, x) : s \in shorter, x \in S}

MovieLists == SeqsUpTo(CandidatePool, MaxMovies)

\* What a collaborator call can do: return, or raise with a text.
Outcomes ==
    {[ok |-> TRUE, text |-> ""]} \cup {[ok |-> FALSE, text |-> t] : t \in FailureTexts}

\* What trend_agent.get_trending_movies() can do.
TrendOutcomes ==
    {[ok |-> TRUE, text |-> "", movies |-> l] : l \in MovieLists}
    \cup {[ok |-> FALSE, text |-> t, movies |-> <<>>] : t \in FailureTexts}

\* What upload_agent.upload_enhanced_content() can return.
UploadLists == { <<"YouTube Shorts", "Instagram Reels">>, <<"unknown">> }

UploadOutcomes ==
    {[ok |-> TRUE, text |-> "", uploads |-> l] : l \in UploadLists}
    \cup {[ok |-> FALSE, text |-> t, uploads |-> <<>>] : t \in FailureTexts}

-----------------------------------------------------------------------------
(* WorkflowState and the graph's node names.                               *)

END == "END"

PipelineNodes ==
    <<"trend_analysis", "movie_selection", "data_collection", "movie_analysis",
      "script_generation", "voice_generation", "video_generation",
      "upload_content">>

Nodes == {PipelineNodes[i] : i \in 1..Len(PipelineNodes)} \cup {"error_handler"}

\* WorkflowState(...) followed by __post_init__.
WorkflowState(movie_title, auto_select, wid) ==
    [ movie_title |-> movie_title,
      auto_select_movie |-> auto_select,
      trending_movies |-> <<>>,
      selected_movie |-> None,
      trend_analysis_complete |-> FALSE,
      movie_data |-> None,
      data_collection_complete |-> FALSE,
      movie_analysis |-> None,
      analysis_complete |-> FALSE,
      script_data |-> None,
      script_complete |-> FALSE,
      audio_data |-> None,
      audio_complete |-> FALSE,
      video_data |-> None,
      video_complete |-> FALSE,
      upload_results |-> <<>>,
      upload_complete |-> FALSE,
      current_step |-> "start",
      error_message |-> None,
      workflow_id |-> wid ]

-----------------------------------------------------------------------------
(* Helper methods of the orchestrator.                                     *)

\* _calculate_viral_potential: min(trending_score / 10 + min(social_mentions
\* / 10000, 1) * 0.3, 1.0), in thousandths.  A trending_score that is not a
\* number makes the division raise TypeError.
_calculate_viral_potential(movie) ==
    IF movie.trending_score = None
    THEN [raised |-> TRUE, value |-> 0]
    ELSE LET base_score == movie.trending_score[1]
             popularity_boost == Min(movie.social_mentions, 10000)
         IN [raised |-> FALSE,
             value |-> Min(base_score + (popularity_boost * 3) \div 100, 1000)]

\* The loop "for movie in trending_movies: movie['viral_potential'] = ...".
\* It writes into the dicts of the list it walks and stops at the first
\* movie whose score raises.
RECURSIVE ScoreMovies(_, _)
ScoreMovies(movies, i) ==
    IF i > Len(movies) THEN [raised |-> FALSE, movies |-> movies]
    ELSE LET vp == _calculate_viral_potential(movies[i])
         IN IF vp.raised THEN [raised |-> TRUE, movies |-> movies]
            ELSE ScoreMovies(
                    [movies EXCEPT ![i].viral_potential = Some(vp.value)], i + 1)

\* x.get("viral_potential", 0)
ViralKey(movie) ==
    IF movie.viral_potential = None THEN 0 ELSE movie.viral_potential[1]

\* As InsertDescending, putting x in front of the elements with x's key.
RECURSIVE InsertDescending_Front(_, _)
InsertDescending_Front(sorted, x) ==
    IF sorted = <<>> THEN <<x>>
    ELSE IF ViralKey(Head(sorted)) > ViralKey(x)
         THEN <<Head(sorted)>> \o InsertDescending_Front(Tail(sorted), x)
         ELSE <<x>> \o sorted

\* Insert x behind every element whose key is at least x's key.
RECURSIVE InsertDescending(_, _)
InsertDescending(sorted, x) ==
    IF sorted = <<>> THEN <<x>>
    ELSE IF ViralKey(Head(sorted)) >= ViralKey(x)
         THEN <<Head(sorted)>> \o InsertDescending(Tail(sorted), x)
         ELSE <<x>> \o sorted

\* list.sort(key=viral_potential, reverse=True): descending and stable.
RECURSIVE SortByViralPotential(_)
SortByViralPotential(movies) ==
    IF movies = <<>> THEN <<>>
    ELSE InsertDescending(
            SortByViralPotential(SubSeq(movies, 1, Len(movies) - 1)),
            movies[Len(movies)])

\* dataclasses.asdict on the dataclass instance a collaborator returns.
asdict(obj) == obj.fields

\* The payloads the collaborators return on success: each carries the title
\* it was called with; the other fields stand for the generated content.
collect_comprehensive_data(movie_title) ==
    [movie_title |-> movie_title, metadata |-> "metadata"]

analyze_movie_with_data(movie_title, movie_data) ==
    [movie_title |-> movie_title, analysis |-> "analysis"]

generate_enhanced_script(movie_title, movie_data) ==
    [dataclass |-> "EnhancedScriptData",
     fields |-> [movie_title |-> movie_title, total_parts |-> 1]]

generate_enhanced_audio(movie_title, script_data, movie_data) ==
    [dataclass |-> "EnhancedAudioData",
     fields |-> [movie_title |-> movie_title, audio_mix_file |-> "mix"]]

generate_enhanced_video(movie_title, script_data, movie_data, audio_data) ==
    [dataclass |-> "EnhancedVideoData",
     fields |-> [movie_title |-> movie_title, video_files |-> <<"video">>]]

-----------------------------------------------------------------------------
(* Workflow nodes.  Each takes the state and what its collaborator call    *)
(* does, and returns the state it hands back to the engine.                *)

_trend_analysis_node(st, out) ==
    LET s1 == [st EXCEPT !.current_step = "trend_analysis"]
    IN IF ~out.ok
       THEN [s1 EXCEPT !.error_message =
                          Some("Trend analysis error: " \o out.text)]
       ELSE LET scored == ScoreMovies(out.movies, 1)
            IN IF scored.raised
               THEN [s1 EXCEPT !.trending_movies = scored.movies,
                               !.error_message =
                                   Some("Trend analysis error: " \o TypeErrorText)]
               ELSE [s1 EXCEPT !.trending_movies =
                                   SortByViralPotential(scored.movies),
                               !.trend_analysis_complete = TRUE]

\* As _movie_selection_node, selecting trending_movies[-1].
_movie_selection_node_Last(st) ==
    LET s1 == [st EXCEPT !.current_step = "movie_selection"]
    IN IF s1.trending_movies = <<>>
       THEN [s1 EXCEPT !.error_message =
                          Some("Movie selection error: " \o "No trending movies available")]
       ELSE LET selected_movie == s1.trending_movies[Len(s1.trending_movies)]
            IN [s1 EXCEPT !.selected_movie = Some(selected_movie),
                          !.movie_title = Some(selected_movie.title)]

\* As _movie_selection_node, keeping a movie_title the caller supplied.
_movie_selection_node_KeepsTitle(st) ==
    LET s1 == [st EXCEPT !.current_step = "movie_selection"]
    IN IF s1.trending_movies = <<>>
       THEN [s1 EXCEPT !.error_message =
                          Some("Movie selection error: " \o "No trending movies available")]
       ELSE LET selected_movie == s1.trending_movies[1]
            IN [s1 EXCEPT !.selected_movie = Some(selected_movie),
                          !.movie_title = IF s1.movie_title # None
                                          THEN s1.movie_title
                                          ELSE Some(selected_movie.title)]

\* As _movie_selection_node, selecting with trending_movies.pop(0).
_movie_selection_node_Pop(st) ==
    LET s1 == [st EXCEPT !.current_step = "movie_selection"]
    IN IF s1.trending_movies = <<>>
       THEN [s1 EXCEPT !.error_message =
                          Some("Movie selection error: " \o "No trending movies available")]
       ELSE LET selected_movie == s1.trending_movies[1]
            IN [s1 EXCEPT !.selected_movie = Some(selected_movie),
                          !.movie_title = Some(selected_movie.title),
                          !.trending_movies = Tail(s1.trending_movies)]

_movie_selection_node(st) ==
    LET s1 == [st EXCEPT !.current_step = "movie_selection"]
    IN IF s1.trending_movies = <<>>
       THEN [s1 EXCEPT !.error_message =
                          Some("Movie selection error: " \o "No trending movies available")]
       ELSE LET selected_movie == s1.trending_movies[1]
            IN [s1 EXCEPT !.selected_movie = Some(selected_movie),
                          !.movie_title = Some(selected_movie.title)]

_data_collection_node(st, out) ==
    LET s1 == [st EXCEPT !.current_step = "data_collection"]
    IN IF ~out.ok
       THEN [s1 EXCEPT !.error_message =
                          Some("Data collection error: " \o out.text)]
       ELSE [s1 EXCEPT !.movie_data =
                          Some(collect_comprehensive_data(s1.movie_title)),
                       !.data_collection_complete = TRUE]

_movie_analysis_node(st, out) ==
    LET s1 == [st EXCEPT !.current_step = "movie_analysis"]
    IN IF ~out.ok
       THEN [s1 EXCEPT !.error_message =
                          Some("Movie analysis error: " \o out.text)]
       ELSE [s1 EXCEPT !.movie_analysis =
                          Some(analyze_movie_with_data(s1.movie_title, s1.movie_data)),
                       !.analysis_complete = TRUE]

_script_generation_node(st, out) ==
    LET s1 == [st EXCEPT !.current_step = "script_generation"]
    IN IF ~out.ok
       THEN [s1 EXCEPT !.error_message =
                          Some("Script generation error: " \o out.text)]
       ELSE [s1 EXCEPT !.script_data =
                          Some(asdict(generate_enhanced_script(s1.movie_title, s1.movie_data))),
                       !.script_complete = TRUE]

\* As _voice_generation_node, with error_message = str(e) alone.
_voice_generation_node_BareText(st, out) ==
    LET s1 == [st EXCEPT !.current_step = "voice_generation"]
    IN IF ~out.ok
       THEN [s1 EXCEPT !.error_message = Some(out.text)]
       ELSE [s1 EXCEPT !.audio_data =
                          Some(asdict(generate_enhanced_audio(
                                  s1.movie_title, s1.script_data, s1.movie_data))),
                       !.audio_complete = TRUE]

_voice_generation_node(st, out) ==
    LET s1 == [st EXCEPT !.current_step = "voice_generation"]
    IN IF ~out.ok
       THEN [s1 EXCEPT !.error_message =
                          Some("Voice generation error: " \o out.text)]
       ELSE [s1 EXCEPT !.audio_data =
                          Some(asdict(generate_enhanced_audio(
                                  s1.movie_title, s1.script_data, s1.movie_data))),
                       !.audio_complete = TRUE]

\* As _video_generation_node, without "state.video_complete = True".
_video_generation_node_NoFlag(st, out) ==
    LET s1 == [st EXCEPT !.current_step = "video_generation"]
    IN IF ~out.ok
       THEN [s1 EXCEPT !.error_message =
                          Some("Video generation error: " \o out.text)]
       ELSE [s1 EXCEPT !.video_data =
                          Some(asdict(generate_enhanced_video(
                                  s1.movie_title, s1.script_data, s1.movie_data,
                                  s1.audio_data)))]

_video_generation_node(st, out) ==
    LET s1 == [st EXCEPT !.current_step = "video_generation"]
    IN IF ~out.ok
       THEN [s1 EXCEPT !.error_message =
                          Some("Video generation error: " \o out.text)]
       ELSE [s1 EXCEPT !.video_data =
                          Some(asdict(generate_enhanced_video(
                                  s1.movie_title, s1.script_data, s1.movie_data,
                                  s1.audio_data))),
                       !.video_complete = TRUE]

\* As _upload_content_node, with upload_complete set ahead of the call.
_upload_content_node_FlagFirst(st, out) ==
    LET s1 == [st EXCEPT !.current_step = "upload_content",
                         !.upload_complete = TRUE]
    IN IF ~out.ok
       THEN [s1 EXCEPT !.error_message = Some("Upload error: " \o out.text)]
       ELSE [s1 EXCEPT !.upload_results = out.uploads]

_upload_content_node(st, out) ==
    LET s1 == [st EXCEPT !.current_step = "upload_content"]
    IN IF ~out.ok
       THEN [s1 EXCEPT !.error_message = Some("Upload error: " \o out.text)]
       ELSE [s1 EXCEPT !.upload_results = out.uploads,
                       !.upload_complete = TRUE]

\* The error record _error_handler_node dumps into error_<workflow_id>.json
\* (its wall-clock timestamp is left out).
error_details(st) ==
    [workflow_id |-> st.workflow_id,
     step |-> st.current_step,
     error |-> st.error_message]

\* As _error_handler_node, with current_step set on entry like the other nodes.
_error_handler_node_SetsStep(st, fs, writeOk) ==
    LET s1 == [st EXCEPT !.current_step = "error_handler"]
    IN IF writeOk
       THEN [raised |-> FALSE, state |-> s1,
             files |-> [fs EXCEPT !.error = Some(error_details(s1))]]
       ELSE [raised |-> TRUE, state |-> s1, files |-> fs]

\* As _error_handler_node, clearing the completion flags of the failed run.
_error_handler_node_ClearsFlags(st, fs, writeOk) ==
    LET s1 == [st EXCEPT !.trend_analysis_complete = FALSE,
                         !.data_collection_complete = FALSE,
                         !.analysis_complete = FALSE,
                         !.script_complete = FALSE,
                         !.audio_complete = FALSE,
                         !.video_complete = FALSE,
                         !.upload_complete = FALSE]
    IN IF writeOk
       THEN [raised |-> FALSE, state |-> s1,
             files |-> [fs EXCEPT !.error = Some(error_details(s1))]]
       ELSE [raised |-> TRUE, state |-> s1, files |-> fs]

\* _error_handler_node has no try/except: when the file cannot be written
\* the exception leaves the node and the state is not returned.
_error_handler_node(st, fs, writeOk) ==
    IF writeOk
    THEN [raised |-> FALSE, state |-> st,
          files |-> [fs EXCEPT !.error = Some(error_details(st))]]
    ELSE [raised |-> TRUE, state |-> st, files |-> fs]

-----------------------------------------------------------------------------
(* Router functions and the conditional edges of _build_workflow.          *)

\* As _should_auto_select_movie, refusing a manual run without a title.
_should_auto_select_movie_Rejects(st) ==
    IF Truthy(st.error_message) THEN "error"
    ELSE IF st.auto_select_movie THEN "auto_select"
    ELSE IF st.movie_title = None THEN "error"
    ELSE "manual_input"

\* As _should_auto_select_movie, without the auto_select_movie test.
_should_auto_select_movie_Always(st) ==
    IF Truthy(st.error_message) THEN "error" ELSE "auto_select"

_should_auto_select_movie(st) ==
    IF Truthy(st.error_message) THEN "error"
    ELSE IF st.auto_select_movie THEN "auto_select"
    ELSE "manual_input"

\* As _movie_selection_router, without the error_message test.
_movie_selection_router_NoError(st) == "success"

_movie_selection_router(st) ==
    IF Truthy(st.error_message) THEN "error" ELSE "success"

\* As _data_collection_router, without the error_message test.
_data_collection_router_NoError(st) == "success"

_data_collection_router(st) ==
    IF Truthy(st.error_message) THEN "error" ELSE "success"

_movie_analysis_router(st) ==
    IF Truthy(st.error_message) THEN "error" ELSE "success"

\* As _script_generation_router, without the error_message test.
_script_generation_router_NoError(st) == "success"

_script_generation_router(st) ==
    IF Truthy(st.error_message) THEN "error" ELSE "success"

_voice_generation_router(st) ==
    IF Truthy(st.error_message) THEN "error" ELSE "success"

_video_generation_router(st) ==
    IF Truthy(st.error_message) THEN "error" ELSE "success"

_upload_router(st) ==
    IF Truthy(st.error_message) THEN "error" ELSE "success"

\* The edges with the two branches after trend_analysis exchanged.
_build_workflow_Swapped ==
    [ trend_analysis |->
          [auto_select |-> "data_collection",
           manual_input |-> "movie_selection",
           error |-> "error_handler"],
      movie_selection |-> [success |-> "data_collection", error |-> "error_handler"],
      data_collection |-> [success |-> "movie_analysis", error |-> "error_handler"],
      movie_analysis |-> [success |-> "script_generation", error |-> "error_handler"],
      script_generation |-> [success |-> "voice_generation", error |-> "error_handler"],
      voice_generation |-> [success |-> "video_generation", error |-> "error_handler"],
      video_generation |-> [success |-> "upload_content", error |-> "error_handler"],
      upload_content |-> [success |-> END, error |-> "error_handler"] ]

\* The edges with a failed upload sent back to upload_content.
_build_workflow_Retry ==
    [ trend_analysis |->
          [auto_select |-> "movie_selection",
           manual_input |-> "data_collection",
           error |-> "error_handler"],
      movie_selection |-> [success |-> "data_collection", error |-> "error_handler"],
      data_collection |-> [success |-> "movie_analysis", error |-> "error_handler"],
      movie_analysis |-> [success |-> "script_generation", error |-> "error_handler"],
      script_generation |-> [success |-> "voice_generation", error |-> "error_handler"],
      voice_generation |-> [success |-> "video_generation", error |-> "error_handler"],
      video_generation |-> [success |-> "upload_content", error |-> "error_handler"],
      upload_content |-> [success |-> END, error |-> "upload_content"] ]

\* add_conditional_edges(source, router, mapping), one entry per source.
_build_workflow ==
    [ trend_analysis |->
          [auto_select |-> "movie_selection",
           manual_input |-> "data_collection",
           error |-> "error_handler"],
      movie_selection |-> [success |-> "data_collection", error |-> "error_handler"],
      data_collection |-> [success |-> "movie_analysis", error |-> "error_handler"],
      movie_analysis |-> [success |-> "script_generation", error |-> "error_handler"],
      script_generation |-> [success |-> "voice_generation", error |-> "error_handler"],
      voice_generation |-> [success |-> "video_generation", error |-> "error_handler"],
      video_generation |-> [success |-> "upload_content", error |-> "error_handler"],
      upload_content |-> [success |-> END, error |-> "error_handler"] ]

\* The engine's routing after a pipeline node returned state st.
Route(n, st) ==
    LET branch == CASE n = "trend_analysis" -> _should_auto_select_movie(st)
                    [] n = "movie_selection" -> _movie_selection_router(st)
                    [] n = "data_collection" -> _data_collection_router(st)
                    [] n = "movie_analysis" -> _movie_analysis_router(st)
                    [] n = "script_generation" -> _script_generation_router(st)
                    [] n = "voice_generation" -> _voice_generation_router(st)
                    [] n = "video_generation" -> _video_generation_router(st)
                    [] n = "upload_content" -> _upload_router(st)
    IN _build_workflow[n][branch]

-----------------------------------------------------------------------------
(* process_movie and the engine.                                           *)

\* _compile_results (its wall-clock completed_at is left out).
_compile_results(st) ==
    [ workflow_id |-> st.workflow_id,
      status |-> IF ~Truthy(st.error_message) THEN "completed" ELSE "error",
      movie_title |-> st.movie_title,
      selected_movie |-> st.selected_movie,
      trending_movies |-> st.trending_movies,
      movie_data |-> st.movie_data,
      movie_analysis |-> st.movie_analysis,
      script_data |-> st.script_data,
      audio_data |-> st.audio_data,
      video_data |-> st.video_data,
      upload_results |-> st.upload_results,
      error_message |-> st.error_message ]

\* _save_workflow_results: dump results into workflow_results_<id>.json.
_save_workflow_results(fs, res, writeOk) ==
    IF writeOk
    THEN [raised |-> FALSE, files |-> [fs EXCEPT !.workflow_results = Some(res)]]
    ELSE [raised |-> TRUE, files |-> fs]

\* The dict process_movie returns from its "except Exception as e" branch.
ExceptionResult(st, text) ==
    [status |-> "error", error |-> text, workflow_id |-> st.workflow_id]

\* The callers of analyze_movie_trends that may be active at once.
Callers == {"run-1", "run-2"}

\* A caller that is not inside analyze_movie_trends.
Idle == [phase |-> "idle", movie_title |-> None, cached_data |-> None, result |-> None]

\* TrendMiningAgent.__init__ (cache = {}), nobody inside analyze_movie_trends.
TrendInit ==
    /\ cache = <<>>
    /\ now = 0
    /\ lookup = [c \in Callers |-> Idle]

\* No request answered yet.
ApiInit ==
    /\ response = None
    /\ polled = None
    /\ report = None

\* Nobody inside get_trending_movies: the first source comes next.
MinerInit ==
    miner = [next |-> 1, trending_movies |-> <<>>, scraped |-> <<>>,
             escaped |-> FALSE, returned |-> None]

\* process_movie up to the start of workflow.ainvoke.
Init ==
    /\ ApiInit
    /\ TrendInit
    /\ MinerInit
    /\ threads = <<>>
    /\ \E movie_title \in MovieTitles, auto_select \in BOOLEAN, wid \in WorkflowIds :
           /\ request = [movie_title |-> movie_title, auto_select |-> auto_select]
           /\ state = WorkflowState(movie_title, auto_select, wid)
    /\ node = "trend_analysis"
    /\ pc = "running"
    /\ results = None
    /\ files = [error |-> None, workflow_results |-> None]
    /\ executed = <<>>
    /\ calls = <<>>
    /\ raised = <<>>

\* The engine may run node n now.
Scheduled(n) ==
    /\ pc = "running"
    /\ node = n
    /\ Len(executed) < MaxSteps

\* One superstep on a pipeline node: the node returned st after making the
\* collaborator call `call`, which did `out`.
Superstep(n, st, call, exc) ==
    /\ state' = st
    /\ node' = Route(n, st)
    /\ executed' = Append(executed, n)
    /\ calls' = calls \o call
    /\ raised' = raised \o exc
    /\ UNCHANGED <<request, pc, results, files>>
    /\ UNCHANGED <<apiVars, trendVars, minerVars, threadVars>>

\* The exception a failed collaborator call raises inside node n.
Raise(n, out) ==
    IF out.ok THEN <<>> ELSE <<[step |-> n, text |-> out.text]>>

TrendAnalysis ==
    /\ Scheduled("trend_analysis")
    /\ \E out \in TrendOutcomes :
           Superstep("trend_analysis",
                     _trend_analysis_node(state, out),
                     <<[method |-> "get_trending_movies", args |-> <<>>,
                        returned |-> out.movies]>>,
                     IF out.ok /\ ScoreMovies(out.movies, 1).raised
                     THEN <<[step |-> "_calculate_viral_potential",
                             text |-> TypeErrorText]>>
                     ELSE Raise("trend_analysis", out))

MovieSelection ==
    /\ Scheduled("movie_selection")
    /\ Superstep("movie_selection",
                 _movie_selection_node(state),
                 <<>>,
                 IF state.trending_movies = <<>>
                 THEN <<[step |-> "movie_selection",
                         text |-> "No trending movies available"]>>
                 ELSE <<>>)

DataCollection ==
    /\ Scheduled("data_collection")
    /\ \E out \in Outcomes :
           Superstep("data_collection",
                     _data_collection_node(state, out),
                     <<[method |-> "collect_comprehensive_data",
                        args |-> <<state.movie_title>>]>>,
                     Raise("data_collection", out))

MovieAnalysis ==
    /\ Scheduled("movie_analysis")
    /\ \E out \in Outcomes :
           Superstep("movie_analysis",
                     _movie_analysis_node(state, out),
                     <<[method |-> "analyze_movie_with_data",
                        args |-> <<state.movie_title, state.movie_data>>]>>,
                     Raise("movie_analysis", out))

ScriptGeneration ==
    /\ Scheduled("script_generation")
    /\ \E out \in Outcomes :
           Superstep("script_generation",
                     _script_generation_node(state, out),
                     <<[method |-> "generate_enhanced_script",
                        args |-> <<state.movie_title, state.movie_data>>]>>,
                     Raise("script_generation", out))

VoiceGeneration ==
    /\ Scheduled("voice_generation")
    /\ \E out \in Outcomes :
           Superstep("voice_generation",
                     _voice_generation_node(state, out),
                     <<[method |-> "generate_enhanced_audio",
                        args |-> <<state.movie_title, state.script_data,
                                   state.movie_data>>]>>,
                     Raise("voice_generation", out))

VideoGeneration ==
    /\ Scheduled("video_generation")
    /\ \E out \in Outcomes :
           Superstep("video_generation",
                     _video_generation_node(state, out),
                     <<[method |-> "generate_enhanced_video",
                        args |-> <<state.movie_title, state.script_data,
                                   state.movie_data, state.audio_data>>]>>,
                     Raise("video_generation", out))

UploadContent ==
    /\ Scheduled("upload_content")
    /\ \E out \in UploadOutcomes :
           Superstep("upload_content",
                     _upload_content_node(state, out),
                     <<[method |-> "upload_enhanced_content",
                        args |-> <<state.movie_title, state.video_data,
                                   state.audio_data, state.script_data>>]>>,
                     Raise("upload_content", out))

\* error_handler, then the edge error_handler -> END.  When the node raises,
\* the exception leaves workflow.ainvoke and process_movie returns from its
\* except branch.
ErrorHandler ==
    /\ Scheduled("error_handler")
    /\ \E writeOk \in BOOLEAN :
           LET r == _error_handler_node(state, files, writeOk)
           IN /\ executed' = Append(executed, "error_handler")
              /\ files' = r.files
              /\ state' = r.state
              /\ UNCHANGED <<request, calls, apiVars, trendVars, minerVars, threadVars>>
              /\ IF r.raised
                 THEN /\ raised' = Append(raised, [step |-> "error_handler",
                                                   text |-> WriteErrorText])
                      /\ results' = Some(ExceptionResult(state, WriteErrorText))
                      /\ pc' = "returned"
                      /\ node' = node
                 ELSE /\ raised' = raised
                      /\ results' = results
                      /\ pc' = pc
                      /\ node' = END

\* process_movie after workflow.ainvoke returned the final state: compile,
\* save, return; a failing save takes the except branch.
ProcessMovieReturn ==
    /\ pc = "running"
    /\ node = END
    /\ \E writeOk \in BOOLEAN :
           LET res == _compile_results(state)
               saved == _save_workflow_results(files, res, writeOk)
           IN /\ files' = saved.files
              /\ IF saved.raised
                 THEN /\ raised' = Append(raised, [step |-> "_save_workflow_results",
                                                   text |-> WriteErrorText])
                      /\ results' = Some(ExceptionResult(state, WriteErrorText))
                 ELSE /\ raised' = raised
                      /\ results' = Some(res)
    /\ pc' = "returned"
    /\ UNCHANGED <<request, state, node, executed, calls, apiVars, trendVars,
                   minerVars, threadVars>>

\* dict.get(key): the value, or None for a missing key.
get(d, key) == IF key \in DOMAIN d THEN d[key] ELSE None

\* The reply of POST /process-movie (main.process_movie) built from the dict
\* orchestrator.process_movie returned.
process_movie_response(res) ==
    [ status |-> "success",
      workflow_id |-> get(res, "workflow_id"),
      movie_title |-> get(res, "movie_title"),
      selected_movie |-> get(res, "selected_movie"),
      message |-> "Started processing movie",
      workflow_status |-> get(res, "status") ]

\* main.process_movie: "results = await orchestrator.process_movie(...)" and
\* then the return; the reply is sent once process_movie has returned.
ProcessMovieEndpoint ==
    /\ pc = "returned"
    /\ response = None
    /\ report = None
    /\ response' = Some(process_movie_response(results[1]))
    /\ UNCHANGED <<orchestratorVars, polled, report, trendVars, minerVars, threadVars>>

\* As auto_trend_analysis, falling back on the "error" key of the result.
auto_trend_analysis_ReadsError(res) ==
    IF get(res, "status") = "completed"
    THEN [ status |-> "completed",
           selected_movie |-> get(res, "selected_movie"),
           processing_result |-> res ]
    ELSE [ status |-> "failed",
           error |-> IF "error_message" \in DOMAIN res
                     THEN res.error_message
                     ELSE Some(get(res, "error")) ]

\* EnhancedOrchestrator.auto_trend_analysis after process_movie returned res.
auto_trend_analysis(res) ==
    IF get(res, "status") = "completed"
    THEN [ status |-> "completed",
           selected_movie |-> get(res, "selected_movie"),
           processing_result |-> res ]
    ELSE [ status |-> "failed",
           error |-> get(res, "error_message") ]

\* auto_trend_analysis called process_movie(auto_select=True) and returns
\* once that has returned; process_movie catches every exception itself, so
\* the except branch of auto_trend_analysis is not taken.
AutoTrendAnalysis ==
    /\ pc = "returned"
    /\ request = [movie_title |-> None, auto_select |-> TRUE]
    /\ report = None
    /\ response = None
    /\ report' = Some(auto_trend_analysis(results[1]))
    /\ UNCHANGED <<orchestratorVars, response, polled, trendVars, minerVars, threadVars>>

\* The identifiers GET /workflow-status is asked about: the one of the run
\* and one that no run has.
UnknownId == "wf-0"

PollIds == {state.workflow_id, UnknownId}

\* EnhancedOrchestrator.get_workflow_status (the timestamp is left out).
get_workflow_status(workflow_id) ==
    [workflow_id |-> workflow_id, status |-> "completed"]

\* GET /workflow-status/{workflow_id}, served at any moment of the run.
GetWorkflowStatus ==
    /\ \E workflow_id \in PollIds :
           polled' = Some(get_workflow_status(workflow_id))
    /\ UNCHANGED <<orchestratorVars, response, report, trendVars, minerVars, threadVars>>

\* The steps of the run itself.
Run ==
    \/ TrendAnalysis
    \/ MovieSelection
    \/ DataCollection
    \/ MovieAnalysis
    \/ ScriptGeneration
    \/ VoiceGeneration
    \/ VideoGeneration
    \/ UploadContent
    \/ ErrorHandler
    \/ ProcessMovieReturn

Next ==
    \/ TrendAnalysis
    \/ MovieSelection
    \/ DataCollection
    \/ MovieAnalysis
    \/ ScriptGeneration
    \/ VoiceGeneration
    \/ VideoGeneration
    \/ UploadContent
    \/ ErrorHandler
    \/ ProcessMovieReturn
    \/ ProcessMovieEndpoint
    \/ AutoTrendAnalysis
    \/ GetWorkflowStatus

Spec == Init /\ [][Next]_vars

\* The event loop runs every awaited step of the run to completion, however
\* many status requests arrive meanwhile.
FairSpec ==
    Spec /\ WF_vars(Run) /\ WF_vars(ProcessMovieEndpoint \/ AutoTrendAnalysis)

-----------------------------------------------------------------------------
(* TrendMiningAgent.analyze_movie_trends and its cache.  A title is a       *)
(* sequence of characters so that lower() and replace() act on it.  A call  *)
(* is two steps, split at its awaits: the cache test, then the end of the   *)
(* gathering and analysis it awaited.                                       *)

\* timedelta(hours=1) in half hours.
TTL == 2

MaxClock == 3

CacheTitles == { <<"A", " ">>, <<"a", "_">>, <<"b">> }

PopularityScores == {0, 10}

\* What _gather_movie_data, _analyze_data and _extract_fan_insights did.
AnalysisOutcomes == [ok : BOOLEAN, popularity_score : PopularityScores]

\* str.lower() on one character.
lower(ch) == IF ch = "A" THEN "a" ELSE IF ch = "B" THEN "b" ELSE ch

\* str.replace(old, new) on one character.
replace(ch, old, new) == IF ch = old THEN new ELSE ch

\* As cache_key, without .replace(' ', '_').
cache_key_NoReplace(movie_title) ==
    <<"trends_">> \o [i \in 1..Len(movie_title) |-> lower(movie_title[i])]

\* cache_key = f"trends_{movie_title.lower().replace(' ', '_')}"
cache_key(movie_title) ==
    <<"trends_">> \o [i \in 1..Len(movie_title) |->
                         replace(lower(movie_title[i]), " ", "_")]

\* The TrendAnalysis built from the analysis of a title.
TrendAnalysis_(movie_title, analysis_result) ==
    [movie_title |-> movie_title,
     popularity_score |-> analysis_result.popularity_score]

\* As put, keeping an entry that is already stored under the key.
put_IfAbsent(c, key, entry) ==
    [k \in DOMAIN c \cup {key} |-> IF k \in DOMAIN c THEN c[k] ELSE entry]

\* self.cache[key] = entry
put(c, key, entry) ==
    [k \in DOMAIN c \cup {key} |-> IF k = key THEN entry ELSE c[k]]

\* analyze_movie_trends up to its first await: the cache test.
AnalyzeMovieTrends(caller, movie_title) ==
    /\ lookup[caller].phase # "gathering"
    /\ LET key == cache_key(movie_title)
           cached_data == IF key \in DOMAIN cache THEN Some(cache[key]) ELSE None
       IN IF cached_data # None /\ now - cached_data[1].timestamp < TTL
          THEN lookup' = [lookup EXCEPT ![caller] =
                             [phase |-> "returned", movie_title |-> Some(movie_title),
                              cached_data |-> cached_data,
                              result |-> Some(cached_data[1].data)]]
          ELSE lookup' = [lookup EXCEPT ![caller] =
                             [phase |-> "gathering", movie_title |-> Some(movie_title),
                              cached_data |-> cached_data, result |-> None]]
    /\ UNCHANGED <<cache, now, orchestratorVars, apiVars, minerVars, threadVars>>

\* As FinishAnalysis, dropping the entry of the title when the analysis fails.
FinishAnalysis_Evicts(caller, out) ==
    /\ lookup[caller].phase = "gathering"
    /\ LET movie_title == lookup[caller].movie_title[1]
           trend_analysis == TrendAnalysis_(movie_title, out)
       IN IF out.ok
          THEN /\ cache' = put(cache, cache_key(movie_title),
                               [data |-> trend_analysis, timestamp |-> now])
               /\ lookup' = [lookup EXCEPT ![caller].phase = "returned",
                                           ![caller].result = Some(trend_analysis)]
          ELSE /\ cache' = [k \in DOMAIN cache \ {cache_key(movie_title)} |-> cache[k]]
               /\ lookup' = [lookup EXCEPT ![caller].phase = "raised"]
    /\ UNCHANGED <<now, orchestratorVars, apiVars, minerVars, threadVars>>

\* analyze_movie_trends after its awaits: build the TrendAnalysis, store it
\* with the time of storing and return it; or log and re-raise.
FinishAnalysis(caller, out) ==
    /\ lookup[caller].phase = "gathering"
    /\ LET movie_title == lookup[caller].movie_title[1]
           trend_analysis == TrendAnalysis_(movie_title, out)
       IN IF out.ok
          THEN /\ cache' = put(cache, cache_key(movie_title),
                               [data |-> trend_analysis, timestamp |-> now])
               /\ lookup' = [lookup EXCEPT ![caller].phase = "returned",
                                           ![caller].result = Some(trend_analysis)]
          ELSE /\ cache' = cache
               /\ lookup' = [lookup EXCEPT ![caller].phase = "raised"]
    /\ UNCHANGED <<now, orchestratorVars, apiVars, minerVars, threadVars>>

\* Half an hour passes.
Tick ==
    /\ now < MaxClock
    /\ now' = now + 1
    /\ UNCHANGED <<cache, lookup, orchestratorVars, apiVars, minerVars, threadVars>>

StartLookup == \E caller \in Callers, movie_title \in CacheTitles :
                   AnalyzeMovieTrends(caller, movie_title)

EndLookup == \E caller \in Callers, out \in AnalysisOutcomes :
                 FinishAnalysis(caller, out)

CacheNext ==
    \/ StartLookup
    \/ EndLookup
    \/ Tick

\* The agent beside an orchestrator that has just taken one request.
CacheInit ==
    /\ Init
    /\ request = [movie_title |-> None, auto_select |-> TRUE]
    /\ state.workflow_id = "wf-1"

CacheSpec == CacheInit /\ [][CacheNext]_vars

-----------------------------------------------------------------------------
(* TrendMiningAgent.get_trending_movies and _rank_trending_movies, and the  *)
(* trend_analysis node receiving what they return.  A movie dict is a       *)
(* record; a key that may be missing holds None when it is missing and      *)
(* Some(v) when it is there, v being None for Python's None and Some(n)     *)
(* for a number.  rating is in tenths, trending_score in hundredths.        *)

\* "return ranked_movies[:10]"
TopN == 10

\* sources = ['imdb', 'youtube', 'reddit']
Sources == <<"imdb", "youtube", "reddit">>

MaxPerSource == 4

Num(n) == Some(Some(n))

NoneValue == Some(None)

Movie(title, source, rating, review_count, social_mentions, recent_release) ==
    [title |-> title, source |-> source, rating |-> rating,
     review_count |-> review_count, social_mentions |-> social_mentions,
     recent_release |-> recent_release, trending_score |-> None]

\* What each source's scraper can find, in the order it finds it.
Roster ==
    [ imdb |->
        << Movie("Dune", "imdb", None, None, None, Some(TRUE)),
           Movie("Heat", "imdb", Num(10), None, None, Some(TRUE)),
           Movie("Tenet", "imdb", Num(85), Num(500), None, Some(FALSE)),
           Movie("Alien", "imdb", None, Num(500), None, None),
           Movie("Arrival", "imdb", None, None, Num(10000), None) >>,
      youtube |->
        << Movie("Heat", "youtube", None, None, None, Some(TRUE)),
           Movie("Dune", "youtube", None, None, Num(5000), Some(TRUE)),
           Movie("Tenet", "youtube", None, Num(1000), None, None),
           Movie("Alien", "youtube", None, None, None, None),
           Movie("Arrival", "youtube", Num(10), Num(2000), None, None) >>,
      reddit |->
        << Movie("Tenet", "reddit", None, None, None, Some(TRUE)),
           Movie("Dune", "reddit", Num(20), None, None, None),
           Movie("Heat", "reddit", None, None, Num(20000), None),
           Movie("Alien", "reddit", NoneValue, None, None, Some(TRUE)),
           Movie("Arrival", "reddit", Num(5), Num(50), Num(1000), Some(TRUE)) >> ]

\* What scrapers[source].get_trending_movies() can do: raise, or return the
\* first so many movies it can find.
SourceOutcomes(source) ==
    {[ok |-> FALSE, movies |-> <<>>]}
    \cup {[ok |-> TRUE, movies |-> SubSeq(Roster[source], 1, n)] :
             n \in 0..Min(MaxPerSource, Len(Roster[source]))}

\* The score _rank_trending_movies gives one movie; arithmetic on a None
\* value raises TypeError.
trending_score(movie) ==
    IF \/ movie.rating = NoneValue
       \/ movie.review_count = NoneValue
       \/ movie.social_mentions = NoneValue
    THEN [raised |-> TRUE, value |-> 0]
    ELSE [raised |-> FALSE,
          value |->
              (IF movie.rating = None THEN 0 ELSE movie.rating[1][1] * 3)
            + (IF movie.review_count = None THEN 0
               ELSE (Min(movie.review_count[1][1], 1000) * 20) \div 1000)
            + (IF movie.social_mentions = None THEN 0
               ELSE (Min(movie.social_mentions[1][1], 10000) * 30) \div 10000)
            + (IF movie.recent_release = Some(TRUE) THEN 20 ELSE 0)]

\* The loop "for movie in movies: ... movie['trending_score'] = score",
\* stopping at the first movie whose score raises.
RECURSIVE ScoreTrending(_, _)
ScoreTrending(movies, i) ==
    IF i > Len(movies) THEN [raised |-> FALSE, movies |-> movies]
    ELSE LET score == trending_score(movies[i])
         IN IF score.raised THEN [raised |-> TRUE, movies |-> movies]
            ELSE ScoreTrending(
                    [movies EXCEPT ![i].trending_score = Some(score.value)], i + 1)

\* x.get('trending_score', 0)
TrendingKey(movie) ==
    IF movie.trending_score = None THEN 0 ELSE movie.trending_score[1]

RECURSIVE InsertByTrendingScore(_, _)
InsertByTrendingScore(sorted, x) ==
    IF sorted = <<>> THEN <<x>>
    ELSE IF TrendingKey(Head(sorted)) >= TrendingKey(x)
         THEN <<Head(sorted)>> \o InsertByTrendingScore(Tail(sorted), x)
         ELSE <<x>> \o sorted

\* sorted(movies, key=trending_score, reverse=True): descending and stable.
RECURSIVE SortByTrendingScore(_)
SortByTrendingScore(movies) ==
    IF movies = <<>> THEN <<>>
    ELSE InsertByTrendingScore(
            SortByTrendingScore(SubSeq(movies, 1, Len(movies) - 1)),
            movies[Len(movies)])

_rank_trending_movies(movies) ==
    LET scored == ScoreTrending(movies, 1)
    IN IF scored.raised THEN [raised |-> TRUE, movies |-> <<>>]
       ELSE [raised |-> FALSE, movies |-> SortByTrendingScore(scored.movies)]

\* As top, without the slice.
top_All(ranked_movies) == ranked_movies

\* ranked_movies[:10]
top(ranked_movies) == SubSeq(ranked_movies, 1, Min(Len(ranked_movies), TopN))

\* As get_trending_movies, without the outer try/except.
get_trending_movies_Reraises(trending_movies) ==
    LET ranked == _rank_trending_movies(trending_movies)
    IN IF ranked.raised THEN [escaped |-> TRUE, returned |-> None]
       ELSE [escaped |-> FALSE, returned |-> Some(top(ranked.movies))]

\* get_trending_movies after the loop over the sources: rank and return the
\* top ten; "except Exception: return []".
get_trending_movies(trending_movies) ==
    LET ranked == _rank_trending_movies(trending_movies)
    IN IF ranked.raised THEN [escaped |-> FALSE, returned |-> Some(<<>>)]
       ELSE [escaped |-> FALSE, returned |-> Some(top(ranked.movies))]

MinerDone == miner.escaped \/ miner.returned # None

\* One round of "for source in sources": the inner try/except logs a
\* failing scraper and goes on.
ScrapeSource ==
    /\ ~MinerDone
    /\ miner.next <= Len(Sources)
    /\ \E out \in SourceOutcomes(Sources[miner.next]) :
           miner' = [miner EXCEPT
                        !.next = @ + 1,
                        !.trending_movies = IF out.ok THEN @ \o out.movies ELSE @,
                        !.scraped = Append(@, out)]
    /\ UNCHANGED <<orchestratorVars, apiVars, trendVars, threadVars>>

RankAndReturn ==
    /\ ~MinerDone
    /\ miner.next > Len(Sources)
    /\ LET r == get_trending_movies(miner.trending_movies)
       IN miner' = [miner EXCEPT !.escaped = r.escaped, !.returned = r.returned]
    /\ UNCHANGED <<orchestratorVars, apiVars, trendVars, threadVars>>

\* The dict of a ranked movie as _calculate_viral_potential reads it.
AsCandidate(movie) ==
    Candidate(movie.title, movie.trending_score,
              IF movie.social_mentions = None THEN 0
              ELSE movie.social_mentions[1][1])

\* The trend_analysis node whose awaited get_trending_movies has finished.
TrendAnalysisOfMiner ==
    /\ Scheduled("trend_analysis")
    /\ MinerDone
    /\ LET out == IF miner.escaped
                  THEN [ok |-> FALSE, text |-> TypeErrorText, movies |-> <<>>]
                  ELSE [ok |-> TRUE, text |-> "",
                        movies |-> [i \in 1..Len(miner.returned[1]) |->
                                       AsCandidate(miner.returned[1][i])]]
       IN Superstep("trend_analysis",
                    _trend_analysis_node(state, out),
                    <<[method |-> "get_trending_movies", args |-> <<>>,
                       returned |-> out.movies]>>,
                    Raise("trend_analysis", out))

TrendingNext ==
    \/ ScrapeSource
    \/ RankAndReturn
    \/ TrendAnalysisOfMiner
    \/ MovieSelection

\* A run whose trend agent is the TrendMiningAgent, up to movie selection.
TrendingSpec == Init /\ [][TrendingNext]_vars

-----------------------------------------------------------------------------
(* Several process_movie calls on one EnhancedOrchestrator.  They share the  *)
(* compiled graph and its MemorySaver, in which each run's state is kept     *)
(* under thread_id = workflow_id.  One step is one superstep of one run;     *)
(* the runs are interleaved at their awaits.                                 *)

RunIds == WorkflowIds

\* The requests of the concurrent runs.
ThreadRequests ==
    { [movie_title |-> None, auto_select |-> TRUE],
      [movie_title |-> Some("Inception"), auto_select |-> FALSE] }

Response(ok, text, movies, uploads) ==
    [ok |-> ok, text |-> text, movies |-> movies, uploads |-> uploads]

\* What the collaborator of node n can answer to a run.
ThreadResponses(n) ==
    IF n = "movie_selection" THEN {Response(TRUE, "", <<>>, <<>>)}
    ELSE {Response(FALSE, "timeout", <<>>, <<>>)} \cup
         (IF n = "trend_analysis"
          THEN {Response(TRUE, "", l, <<>>) :
                   l \in {<<>>, <<Candidate("Dune", Some(20), 0)>>}}
          ELSE IF n = "upload_content"
          THEN {Response(TRUE, "", <<>>, <<"YouTube Shorts", "Instagram Reels">>)}
          ELSE {Response(TRUE, "", <<>>, <<>>)})

\* The node function of node n.
NodeFunction(n, st, out) ==
    CASE n = "trend_analysis" -> _trend_analysis_node(st, out)
      [] n = "movie_selection" -> _movie_selection_node(st)
      [] n = "data_collection" -> _data_collection_node(st, out)
      [] n = "movie_analysis" -> _movie_analysis_node(st, out)
      [] n = "script_generation" -> _script_generation_node(st, out)
      [] n = "voice_generation" -> _voice_generation_node(st, out)
      [] n = "video_generation" -> _video_generation_node(st, out)
      [] n = "upload_content" -> _upload_content_node(st, out)

\* As thread_id, one identifier for every run.
thread_id_Constant(st) == "wf-1"

\* config = {"configurable": {"thread_id": initial_state.workflow_id}}
thread_id(st) == st.workflow_id

\* process_movie of one run up to the start of workflow.ainvoke.
Thread(req, wid) ==
    [ request |-> req,
      state |-> WorkflowState(req.movie_title, req.auto_select, wid),
      node |-> "trend_analysis",
      pc |-> "running",
      results |-> None,
      files |-> [error |-> None, workflow_results |-> None],
      responses |-> <<>> ]

\* The single-run variables are not used beside the threads.
MultiInit ==
    /\ ApiInit
    /\ TrendInit
    /\ MinerInit
    /\ request = [movie_title |-> None, auto_select |-> TRUE]
    /\ state = WorkflowState(None, TRUE, "wf-0")
    /\ node = "trend_analysis"
    /\ pc = "running"
    /\ results = None
    /\ files = [error |-> None, workflow_results |-> None]
    /\ executed = <<>>
    /\ calls = <<>>
    /\ raised = <<>>
    /\ \E reqs \in [RunIds -> ThreadRequests] :
           threads = [r \in RunIds |-> Thread(reqs[r], r)]

\* One superstep of run r on a pipeline node; the new state is stored under
\* the thread_id of the run.
StepThread ==
    /\ \E r \in RunIds :
           /\ threads[r].pc = "running"
           /\ threads[r].node \in {PipelineNodes[i] : i \in 1..Len(PipelineNodes)}
           /\ \E out \in ThreadResponses(threads[r].node) :
                  LET st == NodeFunction(threads[r].node, threads[r].state, out)
                      tid == thread_id(st)
                  IN threads' = [threads EXCEPT
                                    ![tid].state = st,
                                    ![tid].node = Route(threads[r].node, st),
                                    ![tid].responses = Append(@, out)]
    /\ UNCHANGED <<orchestratorVars, apiVars, trendVars, minerVars>>

\* error_handler of run r, as in ErrorHandler.
HandleThreadError ==
    /\ \E r \in RunIds :
           /\ threads[r].pc = "running"
           /\ threads[r].node = "error_handler"
           /\ \E writeOk \in BOOLEAN :
                  LET h == _error_handler_node(threads[r].state, threads[r].files, writeOk)
                      tid == thread_id(h.state)
                  IN threads' = [threads EXCEPT
                         ![tid].state = h.state,
                         ![tid].files = h.files,
                         ![tid].responses = Append(@, Response(writeOk, "", <<>>, <<>>)),
                         ![tid].node = IF h.raised THEN @ ELSE END,
                         ![tid].pc = IF h.raised THEN "returned" ELSE @,
                         ![tid].results =
                             IF h.raised
                             THEN Some(ExceptionResult(h.state, WriteErrorText))
                             ELSE @]
    /\ UNCHANGED <<orchestratorVars, apiVars, trendVars, minerVars>>

\* process_movie of run r after workflow.ainvoke, as in ProcessMovieReturn.
ReturnThread ==
    /\ \E r \in RunIds :
           /\ threads[r].pc = "running"
           /\ threads[r].node = END
           /\ \E writeOk \in BOOLEAN :
                  LET final_state == threads[thread_id(threads[r].state)].state
                      res == _compile_results(final_state)
                      saved == _save_workflow_results(threads[r].files, res, writeOk)
                  IN threads' = [threads EXCEPT
                         ![r].files = saved.files,
                         ![r].responses = Append(@, Response(writeOk, "", <<>>, <<>>)),
                         ![r].pc = "returned",
                         ![r].results =
                             IF saved.raised
                             THEN Some(ExceptionResult(final_state, WriteErrorText))
                             ELSE Some(res)]
    /\ UNCHANGED <<orchestratorVars, apiVars, trendVars, minerVars>>

MultiNext ==
    \/ StepThread
    \/ HandleThreadError
    \/ ReturnThread

MultiSpec == MultiInit /\ [][MultiNext]_vars

-----------------------------------------------------------------------------
(* Vocabulary of the properties.                                           *)

PipelineNodeSet == {PipelineNodes[i] : i \in 1..Len(PipelineNodes)}

\* Position of a pipeline node in the stage order.
StageIndex(n) == CHOOSE i \in 1..Len(PipelineNodes) : PipelineNodes[i] = n

\* The result slot each pipeline node produces.
SlotOf ==
    [ trend_analysis |-> "trending_movies",
      movie_selection |-> "selected_movie",
      data_collection |-> "movie_data",
      movie_analysis |-> "movie_analysis",
      script_generation |-> "script_data",
      voice_generation |-> "audio_data",
      video_generation |-> "video_data",
      upload_content |-> "upload_results" ]

\* The completion flag of each pipeline node that has one: WorkflowState
\* declares no flag for movie_selection.
FlagOf ==
    [ trend_analysis |-> "trend_analysis_complete",
      data_collection |-> "data_collection_complete",
      movie_analysis |-> "analysis_complete",
      script_generation |-> "script_complete",
      voice_generation |-> "audio_complete",
      video_generation |-> "video_complete",
      upload_content |-> "upload_complete" ]

\* An absent slot: None for an Optional, the empty list for a list.
Absent(v) == v = <<>>

Slots(st) == [n \in PipelineNodeSet |-> st[SlotOf[n]]]

Flags(st) == [n \in DOMAIN FlagOf |-> st[FlagOf[n]]]

AllFlagsTrue(st) == \A n \in DOMAIN FlagOf : st[FlagOf[n]]

ErrorSet(st) == st.error_message # None

LastExecuted == IF executed = <<>> THEN "start" ELSE executed[Len(executed)]

\* The exceptions raised by collaborator calls of pipeline nodes.
CollaboratorFailures ==
    {i \in 1..Len(raised) :
        raised[i].step \in PipelineNodeSet \ {"movie_selection"}}

Terminated == pc = "returned"

-----------------------------------------------------------------------------
(* C1  Once error_message has been set, the only node executed afterwards  *)
(* is error_handler, and no result slot and no completion flag changes     *)
(* any more.                                                               *)
C1_ErrorShortCircuits ==
    [][ErrorSet(state) =>
          /\ Slots(state') = Slots(state)
          /\ Flags(state') = Flags(state)
          /\ executed' # executed => executed' = Append(executed, "error_handler")
      ]_vars

C1_Witness ==
    /\ ErrorSet(state)
    /\ Len(executed) >= 3
    /\ LastExecuted = "error_handler"

(* C2  The node the engine moves to is a function of the node that just    *)
(* returned, of whether error_message is set, and of auto_select_movie:    *)
(* error_handler when the error is set; after trend_analysis,              *)
(* movie_selection or data_collection by auto_select_movie; else the next  *)
(* node of the fixed order; END after upload_content and error_handler.    *)
NextStageTable(n, errorIsSet, autoSelect) ==
    IF n = "error_handler" THEN END
    ELSE IF errorIsSet THEN "error_handler"
    ELSE IF n = "trend_analysis"
         THEN (IF autoSelect THEN "movie_selection" ELSE "data_collection")
    ELSE IF n = "upload_content" THEN END
    ELSE PipelineNodes[StageIndex(n) + 1]

C2_RouterIsTable ==
    [][(executed' # executed /\ pc' = "running") =>
          node' = NextStageTable(node, ErrorSet(state'), state'.auto_select_movie)
      ]_vars

C2_Witness ==
    /\ executed = <<"trend_analysis">>
    /\ ~state.auto_select_movie
    /\ node = "data_collection"

(* C3  Every run returns, after at most |states| node executions, with no  *)
(* node executed twice and no collaborator called twice.                   *)
StateCount == Cardinality(Nodes) + 1

NoRepeat(seq, Key(_)) ==
    \A i, j \in 1..Len(seq) : Key(seq[i]) = Key(seq[j]) => i = j

SelfKey(x) == x

MethodKey(c) == c.method

C3_TerminatesWithoutRetry ==
    /\ [](/\ Len(executed) <= StateCount
          /\ NoRepeat(executed, SelfKey)
          /\ NoRepeat(calls, MethodKey))
    /\ <>Terminated

C3_Witness ==
    /\ Terminated
    /\ Len(executed) = Cardinality(Nodes) - 1
    /\ CollaboratorFailures # {}

(* C4  When the run has ended, "every completion flag is true" and         *)
(* "error_message is set" do not hold together.                            *)
C4_CompleteOrError ==
    Terminated => ~(AllFlagsTrue(state) /\ ErrorSet(state))

C4_Witness ==
    /\ Terminated
    /\ ErrorSet(state)
    /\ state.current_step = "upload_content"
    /\ \A n \in DOMAIN FlagOf : n # "upload_content" => state[FlagOf[n]]

(* C5 as stated  When every stage succeeds (nothing raises during the      *)
(* run), the run ends with status "completed", a true completion flag for  *)
(* each of the eight pipeline stages, and a non-empty upload_results.      *)
EightFlagsTrue(st) ==
    \A n \in PipelineNodeSet : n \in DOMAIN FlagOf /\ st[FlagOf[n]]

ListSlotNodes == {"trend_analysis", "upload_content"}

StageSucceeded(n, st) ==
    /\ n \notin ListSlotNodes => ~Absent(st[SlotOf[n]])
    /\ n \in DOMAIN FlagOf => st[FlagOf[n]]
    /\ ~ErrorSet(st)

StageFailed(n, st) ==
    /\ ErrorSet(st)
    /\ Absent(st[SlotOf[n]])
    /\ n \in DOMAIN FlagOf => ~st[FlagOf[n]]

ErrorPrefix ==
    [ trend_analysis |-> "Trend analysis error: ",
      data_collection |-> "Data collection error: ",
      movie_analysis |-> "Movie analysis error: ",
      script_generation |-> "Script generation error: ",
      voice_generation |-> "Voice generation error: ",
      video_generation |-> "Video generation error: ",
      upload_content |-> "Upload error: " ]

C7_FailureCaptured ==
    \A i \in CollaboratorFailures :
        /\ state.error_message = Some(ErrorPrefix[raised[i].step] \o raised[i].text)
        /\ LastExecuted = raised[i].step =>
              /\ pc = "running"
              /\ state.current_step = raised[i].step
              /\ node = "error_handler"

C7_Witness ==
    /\ LastExecuted = "voice_generation"
    /\ CollaboratorFailures # {}
    /\ raised[Len(raised)].text = ""
    /\ node = "error_handler"

(* C8 as stated  When the error record cannot be written, the run still    *)
(* ends with status "error", the original error_message in its result,     *)
(* and a saved result record.                                              *)
ErrorRecordWriteFailed ==
    \E i \in 1..Len(raised) : raised[i].step = "error_handler"

C8_Original ==
    (Terminated /\ ErrorRecordWriteFailed) =>
        /\ results[1].status = "error"
        /\ "error_message" \in DOMAIN results[1]
        /\ results[1].error_message = state.error_message
        /\ files.workflow_results # None

(* C9  When the collaborator call of stage S fails, the run ends with      *)
(* status "error", current_step is S, and the slots of S and of every      *)
(* later stage are absent, in the final state and in the result.           *)
InResultAbsent(res, slot) == slot \in DOMAIN res => Absent(res[slot])

C9_FailedStageReported ==
    \A i \in CollaboratorFailures :
        Terminated =>
            /\ results[1].status = "error"
            /\ state.current_step = raised[i].step
            /\ \A n \in PipelineNodeSet :
                  StageIndex(n) >= StageIndex(raised[i].step) =>
                      /\ Absent(state[SlotOf[n]])
                      /\ InResultAbsent(results[1], SlotOf[n])

C9_Witness ==
    /\ Terminated
    /\ CollaboratorFailures # {}
    /\ state.current_step = "data_collection"
    /\ Absent(state.movie_data)
    /\ files.error # None

(* C10  In a run with auto_select false and a title supplied, the node     *)
(* after a successful trend_analysis is data_collection, movie_selection   *)
(* is never executed, selected_movie stays absent, and                     *)
(* collect_comprehensive_data gets the caller's title.                     *)
ManualRun == ~request.auto_select /\ request.movie_title # None

C10_ManualBypassesSelection ==
    ManualRun =>
        /\ \A i \in 1..Len(executed) : executed[i] # "movie_selection"
        /\ node # "movie_selection"
        /\ state.selected_movie = None
        /\ (executed = <<"trend_analysis">> /\ ~ErrorSet(state)) =>
               node = "data_collection"
        /\ (Len(executed) >= 2 /\ executed[2] # "error_handler") =>
               executed[2] = "data_collection"
        /\ \A i \in 1..Len(calls) :
               calls[i].method = "collect_comprehensive_data" =>
                   calls[i].args = <<request.movie_title>>

C10_Witness ==
    /\ ManualRun
    /\ state.data_collection_complete
    /\ state.movie_data[1].movie_title = request.movie_title

(* C11  In a run with auto_select true and a non-empty candidate list,      *)
(* after movie_selection selected_movie is the first candidate, in the     *)
(* order the trend miner returned them, whose viral potential is the       *)
(* maximum, and movie_title is that candidate's title.                     *)
ViralPotentialOf(c) == _calculate_viral_potential(c).value

\* The list get_trending_movies returned to this run.
TrendReturned == calls[1].returned

IsFirstMax(input, k) ==
    /\ \A j \in 1..Len(input) : ViralPotentialOf(input[j]) <= ViralPotentialOf(input[k])
    /\ \A j \in 1..(k - 1) : ViralPotentialOf(input[j]) < ViralPotentialOf(input[k])

SelectionDone ==
    /\ state.auto_select_movie
    /\ \E i \in 1..Len(executed) : executed[i] = "movie_selection"
    /\ state.trending_movies # <<>>

C11_SelectsFirstMaximum ==
    SelectionDone =>
        \E k \in 1..Len(TrendReturned) :
            /\ IsFirstMax(TrendReturned, k)
            /\ state.selected_movie =
                   Some([TrendReturned[k] EXCEPT
                            !.viral_potential = Some(ViralPotentialOf(TrendReturned[k]))])
            /\ state.movie_title = Some(TrendReturned[k].title)
            /\ \A i \in 1..Len(state.trending_movies) :
                   ViralKey(state.trending_movies[i]) <= ViralPotentialOf(TrendReturned[k])

C11_Witness ==
    /\ SelectionDone
    /\ Len(TrendReturned) = 2
    /\ TrendReturned[1].title # TrendReturned[2].title
    /\ ViralPotentialOf(TrendReturned[1]) = ViralPotentialOf(TrendReturned[2])
    /\ state.movie_title = Some(TrendReturned[1].title)

(* C12  movie_selection on an empty trending_movies sets error_message,    *)
(* leaves selected_movie absent and movie_title as the caller gave it, and *)
(* the run goes to error_handler; data_collection is not executed.         *)
EmptySelection ==
    /\ \E i \in 1..Len(executed) : executed[i] = "movie_selection"
    /\ state.trending_movies = <<>>

C12_EmptyListFails ==
    EmptySelection =>
        /\ state.error_message =
               Some("Movie selection error: No trending movies available")
        /\ state.selected_movie = None
        /\ state.movie_title = request.movie_title
        /\ \A i \in 1..Len(executed) : executed[i] # "data_collection"
        /\ \A i \in 1..Len(calls) : calls[i].method # "collect_comprehensive_data"
        /\ node # "data_collection"
        /\ LastExecuted = "movie_selection" => node = "error_handler"

C12_Witness ==
    /\ EmptySelection
    /\ request.movie_title # None
    /\ LastExecuted = "error_handler"

(* C13  A completion flag never goes from true to false, and it changes    *)
(* only in the one execution of the node it belongs to.                    *)
C13_FlagsMonotone ==
    [][\A n \in DOMAIN FlagOf :
          /\ state[FlagOf[n]] => state'[FlagOf[n]]
          /\ state'[FlagOf[n]] # state[FlagOf[n]] =>
                /\ executed' = Append(executed, n)
                /\ \A i \in 1..Len(executed) : executed[i] # n
      ]_vars

C13_Witness ==
    /\ state.trend_analysis_complete
    /\ state.data_collection_complete
    /\ LastExecuted = "error_handler"

(* C14  A populated result slot never becomes absent again, and a slot     *)
(* changes only in a step of the node that produces it.                    *)
C14_SlotsAppendOnly ==
    [][\A n \in PipelineNodeSet :
          /\ ~Absent(state[SlotOf[n]]) => ~Absent(state'[SlotOf[n]])
          /\ state'[SlotOf[n]] # state[SlotOf[n]] =>
                executed' = Append(executed, n)
      ]_vars

C14_Witness ==
    /\ state.selected_movie # None
    /\ Len(state.trending_movies) = 2
    /\ state.movie_data # None
    /\ LastExecuted = "error_handler"

(* C15  Nodes run one at a time, and a node starts only when the slots it  *)
(* reads from earlier nodes are populated; its collaborator is called      *)
(* with those slots present.                                               *)
Needs ==
    [ movie_analysis |-> {"movie_data"},
      script_generation |-> {"movie_data"},
      voice_generation |-> {"script_data", "movie_data"},
      video_generation |-> {"script_data", "movie_data", "audio_data"},
      upload_content |-> {"video_data", "audio_data", "script_data"} ]

InputsPresent ==
    /\ (pc = "running" /\ node \in DOMAIN Needs) =>
           \A slot \in Needs[node] : ~Absent(state[slot])
    /\ \A i \in 1..Len(calls) :
           \A j \in 2..Len(calls[i].args) : calls[i].args[j] # None

C15_SequentialWithInputs ==
    /\ []InputsPresent
    /\ [][Len(executed') <= Len(executed) + 1]_vars

C15_Witness ==
    /\ LastExecuted = "upload_content"
    /\ Len(calls[Len(calls)].args) = 4
    /\ state.upload_complete

(* C16 as stated  A run that has ended has written its result record       *)
(* under its workflow_id; if it went through error_handler it has also     *)
(* written the error record with workflow_id, step and error; a completed  *)
(* run has written no error record.  (A record whose own write fails       *)
(* cannot exist and is not asked for.)                                     *)
ResultWriteFailed ==
    \E i \in 1..Len(raised) : raised[i].step = "_save_workflow_results"

C16_Original ==
    Terminated =>
        /\ ~ResultWriteFailed =>
               /\ files.workflow_results # None
               /\ files.workflow_results[1].workflow_id = state.workflow_id
        /\ (LastExecuted = "error_handler" /\ ~ErrorRecordWriteFailed) =>
               files.error = Some([workflow_id |-> state.workflow_id,
                                   step |-> state.current_step,
                                   error |-> state.error_message])
        /\ results[1].status = "completed" => files.error = None

(* C17 as stated  What is reported for a failed run, by process_movie and   *)
(* by a status request made after the failure, carries status "error",     *)
(* the error_message and the current_step at which the run failed.         *)
RunFailed == Terminated /\ (ErrorSet(state) \/ raised # <<>>)

CarriesFailure(reported) ==
    /\ reported.status = "error"
    /\ "error_message" \in DOMAIN reported
    /\ reported.error_message # None
    /\ reported.error_message = state.error_message
    /\ "current_step" \in DOMAIN reported
    /\ reported.current_step = state.current_step

C17_Original ==
    /\ [](RunFailed => CarriesFailure(results[1]))
    /\ [][(RunFailed /\ polled' # polled /\ polled'[1].workflow_id = state.workflow_id)
             => CarriesFailure(polled'[1])]_vars

(* C18 as stated  A status request for an identifier no run has is         *)
(* answered NotFound, and one for the run's identifier is answered with    *)
(* the status the run has at that moment: "running" until process_movie    *)
(* has returned, then "completed" or "error" as the run ended.             *)
NotFound == "NotFound"

ActualStatus == IF pc = "running" THEN "running" ELSE results[1].status

C18_Original ==
    [][polled' # polled =>
          IF polled'[1].workflow_id = state.workflow_id
          THEN polled'[1].status = ActualStatus
          ELSE polled'[1].status = NotFound]_vars

(* C19 as stated  POST /process-movie sends its reply, carrying the        *)
(* workflow_id, while the run has not yet reached a terminal state.        *)
C19_Original ==
    [][(response = None /\ response' # None) =>
          /\ response'[1].workflow_id = state.workflow_id
          /\ pc = "running"]_vars

(* C20  A lookup of a title whose entry, stored under a title differing    *)
(* only in letter case or in spaces versus underscores, is less than one   *)
(* hour old returns the stored analysis without gathering or analysing     *)
(* and leaves the cache alone; a lookup of a title whose entry is one hour *)
(* old or older does not return it but recomputes, and when the            *)
(* recomputation succeeds the entry is replaced by the new analysis with   *)
(* the time of storing; when it fails the cache stays as it was.           *)
CaseVariants(a, b) == {a, b} \in {{"A", "a"}, {"B", "b"}}

\* Titles that differ only in letter case or in spaces versus underscores.
Similar(t1, t2) ==
    /\ Len(t1) = Len(t2)
    /\ \A i \in 1..Len(t1) :
           \/ t1[i] = t2[i]
           \/ CaseVariants(t1[i], t2[i])
           \/ {t1[i], t2[i]} = {" ", "_"}

\* The keys of the entries stored for a title similar to movie_title.
EntriesFor(c, movie_title) ==
    {k \in DOMAIN c : Similar(c[k].data.movie_title, movie_title)}

Starts(caller) ==
    /\ lookup[caller].phase # "gathering"
    /\ lookup'[caller] # lookup[caller]

Ends(caller) ==
    /\ lookup[caller].phase = "gathering"
    /\ lookup'[caller].phase # "gathering"

HitReturnsStored ==
    \A caller \in Callers :
        Starts(caller) =>
            \A k \in EntriesFor(cache, lookup'[caller].movie_title[1]) :
                now - cache[k].timestamp < TTL =>
                    /\ lookup'[caller].phase = "returned"
                    /\ lookup'[caller].result = Some(cache[k].data)
                    /\ cache' = cache

ExpiredRecomputes ==
    \A caller \in Callers :
        Starts(caller) =>
            \A k \in EntriesFor(cache, lookup'[caller].movie_title[1]) :
                now - cache[k].timestamp >= TTL =>
                    /\ lookup'[caller].phase = "gathering"
                    /\ lookup'[caller].result = None

\* The lookup that ends found an entry and did not return it.
FoundExpired(caller) == Ends(caller) /\ lookup[caller].cached_data # None

Overwritten(caller) ==
    /\ lookup'[caller].phase = "returned"
    /\ lookup'[caller].result # None
    /\ \E k \in EntriesFor(cache, lookup[caller].movie_title[1]) :
           /\ DOMAIN cache' = DOMAIN cache
           /\ cache'[k] = [data |-> lookup'[caller].result[1], timestamp |-> now']
           /\ \A other \in DOMAIN cache \ {k} : cache'[other] = cache[other]

C20_Original ==
    [][/\ HitReturnsStored
       /\ ExpiredRecomputes
       /\ \A caller \in Callers : FoundExpired(caller) => Overwritten(caller)]_vars

C20_CacheRoundTrip ==
    [][/\ HitReturnsStored
       /\ ExpiredRecomputes
       /\ \A caller \in Callers :
              FoundExpired(caller) =>
                  \/ Overwritten(caller)
                  \/ lookup'[caller].phase = "raised" /\ cache' = cache]_vars

\* One caller was served the entry another spelling stored, and another has
\* replaced an expired entry by a new analysis.
C20_Witness ==
    \E hit, miss \in Callers :
        /\ lookup[hit].phase = "returned"
        /\ lookup[hit].cached_data # None
        /\ lookup[hit].result = Some(lookup[hit].cached_data[1].data)
        /\ lookup[hit].result[1].movie_title # lookup[hit].movie_title[1]
        /\ lookup[miss].phase = "returned"
        /\ lookup[miss].cached_data # None
        /\ now - lookup[miss].cached_data[1].timestamp = TTL
        /\ lookup[miss].result[1].popularity_score
               # lookup[miss].cached_data[1].data.popularity_score
        /\ cache[cache_key(lookup[miss].movie_title[1])].data = lookup[miss].result[1]

(* C25  After a successful trend_analysis, trending_movies holds the       *)
(* candidates the trend miner returned, each with its viral potential, in  *)
(* descending order of viral potential, and candidates of equal viral      *)
(* potential are in the order in which the trend miner returned them.      *)
Orderings(n) ==
    {p \in [1..n -> 1..n] : \A i, j \in 1..n : p[i] = p[j] => i = j}

Scored(c) == [c EXCEPT !.viral_potential = Some(ViralPotentialOf(c))]

\* sorted is input, scored, rearranged so that keys descend and equal keys
\* keep their input order.
IsStableDescending(sorted, input) ==
    /\ Len(sorted) = Len(input)
    /\ \E p \in Orderings(Len(input)) :
           /\ \A i \in 1..Len(input) : sorted[i] = Scored(input[p[i]])
           /\ \A i, j \in 1..Len(input) :
                  i < j =>
                      \/ ViralKey(sorted[i]) > ViralKey(sorted[j])
                      \/ ViralKey(sorted[i]) = ViralKey(sorted[j]) /\ p[i] < p[j]

C25_SortedStable ==
    state.trend_analysis_complete =>
        IsStableDescending(state.trending_movies, TrendReturned)

C25_Witness ==
    /\ state.trend_analysis_complete
    /\ Len(TrendReturned) = 2
    /\ ViralPotentialOf(TrendReturned[1]) = ViralPotentialOf(TrendReturned[2])
    /\ state.trending_movies[1].title = TrendReturned[1].title
    /\ state.trending_movies[2].title = TrendReturned[2].title
    /\ TrendReturned[1].title # TrendReturned[2].title
    /\ executed = <<"trend_analysis">>

(* C28  In a run with auto_select true no collaborator is called with the  *)
(* movie_title the caller supplied: get_trending_movies takes no title,    *)
(* and after a successful movie_selection movie_title is the selected      *)
(* candidate's title and data collection and every later node call their   *)
(* collaborator with that title.                                           *)
C28_SuppliedTitleUnused ==
    request.auto_select =>
        /\ SelectionDone =>
               state.movie_title = Some(state.selected_movie[1].title)
        /\ \A i \in 1..Len(calls) :
               IF calls[i].method = "get_trending_movies"
               THEN calls[i].args = <<>>
               ELSE /\ SelectionDone
                    /\ calls[i].args[1] = Some(state.selected_movie[1].title)

C28_Witness ==
    /\ request.auto_select
    /\ request.movie_title # None
    /\ SelectionDone
    /\ state.movie_title # request.movie_title
    /\ state.upload_complete
    /\ state.video_data[1].movie_title = state.movie_title

(* C29  A run with auto_select false and no movie_title is not refused:    *)
(* after a successful trend_analysis it goes to data_collection, whose     *)
(* collaborator is called with an absent movie_title, and at that node the *)
(* run fails exactly when the collaborator call fails.                     *)
UntitledManualRun == ~request.auto_select /\ request.movie_title = None

DataCollectionRaised ==
    \E i \in 1..Len(raised) : raised[i].step = "data_collection"

C29_UntitledManualRuns ==
    UntitledManualRun =>
        /\ (executed = <<"trend_analysis">> /\ state.trend_analysis_complete) =>
               /\ ~ErrorSet(state)
               /\ node = "data_collection"
        /\ \A i \in 1..Len(calls) :
               calls[i].method = "collect_comprehensive_data" =>
                   calls[i].args = <<None>>
        /\ LastExecuted = "data_collection" =>
               /\ ErrorSet(state) <=> DataCollectionRaised
               /\ ~DataCollectionRaised =>
                      /\ state.data_collection_complete
                      /\ state.movie_data[1].movie_title = None
                      /\ node = "movie_analysis"

C29_Witness ==
    /\ UntitledManualRun
    /\ LastExecuted = "data_collection"
    /\ calls[Len(calls)].method = "collect_comprehensive_data"
    /\ calls[Len(calls)].args = <<None>>

(* C21  Under every interleaving of concurrent lookups, every cache entry  *)
(* is one complete record stored under the key of its own title, the cache *)
(* changes only by one caller's store, which puts that caller's analysis   *)
(* and the time of storing under the key of its title whatever another     *)
(* caller stored there before, and leaves the entries of all other keys    *)
(* as they were.                                                           *)
EntriesComplete ==
    \A k \in DOMAIN cache :
        /\ DOMAIN cache[k] = {"data", "timestamp"}
        /\ cache[k].data.movie_title \in CacheTitles
        /\ cache[k].data.popularity_score \in PopularityScores
        /\ EntriesFor(cache, cache[k].data.movie_title) = {k}
        /\ cache[k].timestamp \in 0..now

Stores(caller) == Ends(caller) /\ lookup'[caller].phase = "returned"

\* The step is the store of caller: its own entry, whole, under one key.
SingleKeyUpsert(caller) ==
    LET entry == [data |-> lookup'[caller].result[1], timestamp |-> now]
        before == EntriesFor(cache, lookup[caller].movie_title[1])
    IN /\ lookup'[caller].result[1].movie_title = lookup[caller].movie_title[1]
       /\ \E k \in DOMAIN cache' :
              /\ cache'[k] = entry
              /\ before \subseteq {k}
              /\ DOMAIN cache' = DOMAIN cache \cup {k}
              /\ \A other \in DOMAIN cache \ {k} : cache'[other] = cache[other]

C21_LastWriteWins ==
    /\ []EntriesComplete
    /\ [][/\ \A caller \in Callers : Stores(caller) => SingleKeyUpsert(caller)
          /\ cache' # cache => \E caller \in Callers : Stores(caller)]_vars

\* Two callers computed the same title's analysis at the same time with
\* different results, beside an entry of another title.
C21_Witness ==
    \E first, last \in Callers :
        /\ first # last
        /\ lookup[first].phase = "returned"
        /\ lookup[last].phase = "returned"
        /\ lookup[first].cached_data = None
        /\ lookup[last].cached_data = None
        /\ Similar(lookup[first].movie_title[1], lookup[last].movie_title[1])
        /\ lookup[first].result # lookup[last].result
        /\ \E k \in DOMAIN cache : cache[k].data = lookup[last].result[1]
        /\ Cardinality(DOMAIN cache) = 2

(* C26  A lookup that fails raises to its caller, returns nothing and      *)
(* leaves the cache exactly as it was, an expired entry of its title       *)
(* included; the cache test of a lookup changes nothing either; so the     *)
(* cache changes only in the step in which a lookup that computed its      *)
(* analysis returns it.                                                    *)
Fails(caller) == Ends(caller) /\ lookup'[caller].phase = "raised"

C26_OnlySuccessWrites ==
    [][/\ \A caller \in Callers :
              /\ Fails(caller) => cache' = cache /\ lookup'[caller].result = None
              /\ Starts(caller) => cache' = cache
              /\ Ends(caller) => lookup'[caller].phase \in {"returned", "raised"}
       /\ cache' # cache =>
              \E caller \in Callers :
                  /\ Ends(caller)
                  /\ lookup'[caller].phase = "returned"
                  /\ lookup'[caller].result # None]_vars

\* A lookup that found an expired entry has raised and the entry is still
\* there.
C26_Witness ==
    \E caller \in Callers :
        /\ lookup[caller].phase = "raised"
        /\ lookup[caller].cached_data # None
        /\ now - lookup[caller].cached_data[1].timestamp >= TTL
        /\ cache[cache_key(lookup[caller].movie_title[1])] = lookup[caller].cached_data[1]

(* C30  auto_trend_analysis reports "completed" exactly when the run's     *)
(* result has status "completed"; otherwise it reports "failed", with the  *)
(* run's error_message as error when the result has one, and with an       *)
(* absent error when process_movie returned through its except branch,     *)
(* whose result has the failure text under "error" only.                   *)
ExceptionPath(res) ==
    "error" \in DOMAIN res /\ "error_message" \notin DOMAIN res

C30_AutoTrendReport ==
    report # None =>
        LET res == results[1]
            rep == report[1]
        IN /\ rep.status = "completed" <=> res.status = "completed"
           /\ rep.status = "completed" =>
                  /\ ~ErrorSet(state)
                  /\ rep.processing_result = res
                  /\ rep.selected_movie = state.selected_movie
           /\ rep.status # "completed" =>
                  /\ rep.status = "failed"
                  /\ IF ExceptionPath(res)
                     THEN rep.error = None /\ res.error # ""
                     ELSE /\ rep.error = state.error_message
                          /\ rep.error # None

C30_Witness ==
    /\ report # None
    /\ report[1].status = "failed"
    /\ report[1].error = None
    /\ ExceptionPath(results[1])
    /\ results[1].error = WriteErrorText

(* C23  When get_trending_movies returns, its list has at most ten         *)
(* movies; unless ranking raised, in which case the list is empty, they    *)
(* are the ten (or, of fewer, all) movies of highest trending_score among  *)
(* all movies gathered from the sources, in descending order of            *)
(* trending_score.                                                         *)
Gathered == miner.trending_movies

RankingFails ==
    \E i \in 1..Len(Gathered) : trending_score(Gathered[i]).raised

\* The gathered movies, each with the score the ranking gives it.
GatheredScored ==
    [i \in 1..Len(Gathered) |->
        [Gathered[i] EXCEPT !.trending_score = Some(trending_score(Gathered[i]).value)]]

Count(seq, x) == Cardinality({i \in 1..Len(seq) : seq[i] = x})

IsTopOf(best, all) ==
    /\ Len(best) = Min(TopN, Len(all))
    /\ \A i, j \in 1..Len(best) :
           i < j => TrendingKey(best[i]) >= TrendingKey(best[j])
    /\ \A i \in 1..Len(best) : Count(best, best[i]) <= Count(all, best[i])
    /\ \A j \in 1..Len(all) :
           (best # <<>> /\ TrendingKey(all[j]) > TrendingKey(best[Len(best)])) =>
               Count(best, all[j]) = Count(all, all[j])

Signals == {"rating", "review_count", "social_mentions"}

Increments == {1, 500, 20000}

\* movie with one signal raised by d (a missing signal counts as 0).
Raised(movie, signal, d) ==
    [movie EXCEPT ![signal] = Num((IF @ = None THEN 0 ELSE @[1][1]) + d)]

ScoreMonotone(movie) ==
    \A signal \in Signals, d \in Increments :
        trending_score(Raised(movie, signal, d)).value >= trending_score(movie).value

ViralMonotone(c) ==
    \A d \in Increments :
        /\ ViralPotentialOf([c EXCEPT !.social_mentions = @ + d]) >= ViralPotentialOf(c)
        /\ ViralPotentialOf([c EXCEPT !.trending_score = Some(@[1] + d)])
               >= ViralPotentialOf(c)

C24_Original ==
    /\ miner.returned # None =>
           \A i \in 1..Len(miner.returned[1]) :
               /\ miner.returned[1][i].trending_score[1] \in 0..100
               /\ miner.returned[1][i].trending_score[1]
                      = trending_score(miner.returned[1][i]).value
               /\ ScoreMonotone(miner.returned[1][i])
    /\ state.trend_analysis_complete =>
           \A i \in 1..Len(state.trending_movies) :
               /\ state.trending_movies[i].viral_potential[1] \in 0..1000
               /\ ViralMonotone(state.trending_movies[i])

(* C27  get_trending_movies lets no exception out: a source whose scraper  *)
(* raises is skipped and the movies of the other sources are kept, and     *)
(* when ranking raises it returns the empty list.  The trend_analysis node *)
(* that receives the empty list sets its flag and no error_message; the    *)
(* run then goes to movie_selection and fails there when auto_select is    *)
(* true, and goes to data_collection when it is false.                     *)
RECURSIVE MoviesOf(_)
MoviesOf(outcomes) ==
    IF outcomes = <<>> THEN <<>>
    ELSE (IF Head(outcomes).ok THEN Head(outcomes).movies ELSE <<>>)
         \o MoviesOf(Tail(outcomes))

ReturnedEmpty == miner.returned = Some(<<>>)

C27_NeverRaises ==
    /\ ~miner.escaped
    /\ Gathered = MoviesOf(miner.scraped)
    /\ MinerDone =>
           /\ miner.returned # None
           /\ RankingFails => ReturnedEmpty
           /\ ~RankingFails => Len(miner.returned[1]) = Min(TopN, Len(MoviesOf(miner.scraped)))
    /\ \A i \in 1..Len(raised) : raised[i].step # "trend_analysis"
    /\ (executed # <<>> /\ ReturnedEmpty) =>
           /\ state.trend_analysis_complete
           /\ state.trending_movies = <<>>
           /\ executed = <<"trend_analysis">> =>
                  /\ ~ErrorSet(state)
                  /\ node = IF request.auto_select
                            THEN "movie_selection" ELSE "data_collection"
           /\ LastExecuted = "movie_selection" =>
                  /\ request.auto_select
                  /\ state.error_message =
                         Some("Movie selection error: No trending movies available")
                  /\ node = "error_handler"

C27_Witness ==
    /\ RankingFails
    /\ \E i \in 1..Len(miner.scraped) : ~miner.scraped[i].ok
    /\ Len(Gathered) > 0
    /\ ReturnedEmpty
    /\ request.auto_select
    /\ LastExecuted = "movie_selection"
    /\ ErrorSet(state)

(* C22  Under every interleaving of the runs of one orchestrator, a step   *)
(* changes the state, position, files and result of one run only, the      *)
(* state kept for a run carries that run's workflow_id, and two runs that  *)
(* got the same request and the same collaborator responses are in the     *)
(* same state, at the same node, with the same status.                     *)
Anonymous(st) == [st EXCEPT !.workflow_id = ""]

StatusOf(t) == IF t.results = None THEN "running" ELSE t.results[1].status

OwnInputsOnly ==
    \A a, b \in RunIds :
        (threads[a].request = threads[b].request
           /\ threads[a].responses = threads[b].responses) =>
            /\ Anonymous(threads[a].state) = Anonymous(threads[b].state)
            /\ threads[a].node = threads[b].node
            /\ threads[a].pc = threads[b].pc
            /\ StatusOf(threads[a]) = StatusOf(threads[b])

OwnStateOnly ==
    \A r \in RunIds :
        /\ threads[r].state.workflow_id = r
        /\ threads[r].state.auto_select_movie = threads[r].request.auto_select
        /\ threads[r].results # None => threads[r].results[1].workflow_id = r
        /\ \A f \in {"error", "workflow_results"} :
               threads[r].files[f] # None => threads[r].files[f][1].workflow_id = r

C22_RunsIsolated ==
    /\ [](OwnStateOnly /\ OwnInputsOnly)
    /\ [][\A r \in RunIds :
              threads'[r] # threads[r] =>
                  /\ Len(threads'[r].responses) = Len(threads[r].responses) + 1
                  /\ \A other \in RunIds \ {r} : threads'[other] = threads[other]]_vars

\* One run has failed and returned while another, started with another
\* request, is in the middle of the pipeline without an error.
C22_Witness ==
    \E a, b \in RunIds :
        /\ a # b
        /\ threads[a].request # threads[b].request
        /\ threads[a].pc = "returned"
        /\ StatusOf(threads[a]) = "error"
        /\ threads[b].pc = "running"
        /\ threads[b].node = "video_generation"
        /\ threads[b].state.audio_complete
        /\ threads[b].state.error_message = None

====
